---- MODULE Spec2Model ----
(***************************************************************************)
(* Model of doppio's SPAGenerator (doppio/commands/spa_generator.py).      *)
(*                                                                         *)
(* A file text is a sequence of tokens.  Every token is a piece of the     *)
(* text that the regular expression of add_routing_rule_to_hooks treats    *)
(* uniformly: the variable name, one whitespace character, one bracket,    *)
(* one "=", one ",", the placeholder "{rule}", or a run of other           *)
(* characters that holds no newline and no bracket.  Flat gives the text.  *)
(***************************************************************************)
EXTENDS Naturals, Sequences, FiniteSets, TLC

VARIABLES
    hooks,            \* text of apps/<app>/<app>/hooks.py
    hooks0,           \* history: the text hooks.py had before the first injection
    prev,             \* history: the text hooks.py had before the last injection
    hist,             \* history: spa names injected so far, oldest first
    pc,               \* generate_spa: the method to call next
    spa_name,         \* self.spa_name
    add_tailwindcss,  \* self.add_tailwindcss
    fs,               \* which of the files and directories the run looks at exist
    written,          \* history: what the generator itself has written
    out,              \* history: the lines printed
    cmds,             \* history: the external commands run, with their exit status
    steps,            \* history: the methods that have returned
    rpc,              \* two concurrent runs: the position of each
    rlocal,           \* two concurrent runs: the local variable hooks of each
    overlapped        \* history: a run read hooks.py while the other was between
                      \* its read and its write

textvars == <<hooks, hooks0, prev, hist>>
genvars == <<pc, spa_name, add_tailwindcss, fs, written, out, cmds, steps>>
runvars == <<rpc, rlocal, overlapped>>
vars == <<textvars, genvars, runvars>>

----------------------------------------------------------------------------
(* Tokens *)

NAME == "website_route_rules"
SP == " "
TAB == "\t"
NL == "\n"
EQ == "="
LB == "["
RB == "]"
COMMA == ","
PLACEHOLDER == "{rule}"

RECURSIVE Flat(_)
Flat(txt) == IF txt = <<>> THEN "" ELSE Head(txt) \o Flat(Tail(txt))

TokAt(txt, i) == IF i \in 1..Len(txt) THEN txt[i] ELSE ""

SetMax(S) == CHOOSE m \in S : \A k \in S : k <= m
SetMin(S) == CHOOSE m \in S : \A k \in S : m <= k

----------------------------------------------------------------------------
(* re.compile(r"website_route_rules\s?=\s?\[(.+)\]") *)

\* \s : one whitespace character
IsSpace(t) == t \in {SP, TAB, NL}

\* the first position at or after g that holds a newline ("." stops there)
LineEnd(txt, g) ==
    LET S == {k \in g..Len(txt) : txt[k] = NL}
    IN IF S = {} THEN Len(txt) + 1 ELSE SetMin(S)

\* A match of the pattern starting at token i: the name, at most one
\* whitespace character, "=", at most one whitespace character, "[", then the
\* greedy (.+): one or more characters other than newline, up to the last "]"
\* of the line.  gs..ge is group 1 and end the position of the closing "]".
MatchAt(txt, i) ==
    LET j2 == IF IsSpace(TokAt(txt, i + 1)) THEN i + 2 ELSE i + 1
        j4 == IF IsSpace(TokAt(txt, j2 + 1)) THEN j2 + 2 ELSE j2 + 1
        g == j4 + 1
        e == LineEnd(txt, g)
        S == {k \in (g + 1)..(e - 1) : txt[k] = RB}
    IN IF TokAt(txt, i) = NAME /\ TokAt(txt, j2) = EQ /\ TokAt(txt, j4) = LB /\ S # {}
       THEN [ok |-> TRUE, gs |-> g, ge |-> SetMax(S) - 1, end |-> SetMax(S)]
       ELSE [ok |-> FALSE, gs |-> 0, ge |-> 0, end |-> 0]

\* the start of the leftmost match at or after pos, 0 when there is none
NextMatch(txt, pos) ==
    LET S == {i \in pos..Len(txt) : MatchAt(txt, i).ok}
    IN IF S = {} THEN 0 ELSE SetMin(S)

\* pattern.search(hooks)
pattern_search(txt) == NextMatch(txt, 1) # 0

\* a template that puts the new record after the old ones
Template_Appends(group) ==
    <<NAME, SP, EQ, SP, LB>> \o group \o <<COMMA, SP, PLACEHOLDER, RB>>

\* a template that drops the old records
Template_DropsGroup(group) == <<NAME, SP, EQ, SP, LB, PLACEHOLDER, COMMA, RB>>

\* the replacement template r"website_route_rules = [{rule}, \1]"
Template(group) == <<NAME, SP, EQ, SP, LB, PLACEHOLDER, COMMA, SP>> \o group \o <<RB>>

\* pattern.sub(template, hooks): every non-overlapping match, left to right
RECURSIVE SubFrom(_, _)
SubFrom(txt, pos) ==
    LET i == NextMatch(txt, pos)
    IN IF i = 0
       THEN SubSeq(txt, pos, Len(txt))
       ELSE LET m == MatchAt(txt, i)
            IN SubSeq(txt, pos, i - 1) \o Template(SubSeq(txt, m.gs, m.ge))
                   \o SubFrom(txt, m.end + 1)

pattern_sub(txt) == SubFrom(txt, 1)

\* str.replace(old, new): every occurrence of the token old
RECURSIVE replace(_, _, _)
replace(txt, old, new) ==
    IF txt = <<>> THEN <<>>
    ELSE <<IF Head(txt) = old THEN new ELSE Head(txt)>> \o replace(Tail(txt), old, new)

----------------------------------------------------------------------------
(* add_routing_rule_to_hooks, the text transformation *)

\* a record whose from_route lacks the leading "/"
rule_NoSlash(name) ==
    "{" \o "'from_route': '" \o name \o "/<path:app_path>', 'to_route': '"
        \o name \o "'" \o "}"

\* the record of the rule for the spa called name, as text
rule(name) ==
    "{" \o "'from_route': '/" \o name \o "/<path:app_path>', 'to_route': '"
        \o name \o "'" \o "}"

\* an appended declaration that does not start a line of its own
Appended_NoLineBreak == <<NAME, SP, EQ, SP, LB, PLACEHOLDER, COMMA, RB>>

\* the text appended when the pattern is not found
Appended == <<NL, NAME, SP, EQ, SP, LB, PLACEHOLDER, COMMA, RB>>

rules(txt) ==
    IF ~pattern_search(txt) THEN txt \o Appended ELSE pattern_sub(txt)

updates_hooks(txt, name) == replace(rules(txt), PLACEHOLDER, rule(name))

----------------------------------------------------------------------------
(* The texts hooks.py may hold when the generator is run *)

MaxInjections == 3

SpaNames == {"b", "billing"}

OLD == "{'from_route': '/a', 'to_route': 'a'}"
OLD2 == "{'from_route': '/docs', 'to_route': 'docs'}"

Prefixes ==
    { <<>>,
      <<"x", SP, EQ, SP, "1", NL>>,
      <<"fmt", SP, EQ, SP, "'", PLACEHOLDER, "'", NL>> }

Declarations ==
    { <<>>,
      \* one record, the shape the generator itself writes next
      <<NAME, SP, EQ, SP, LB, OLD, RB>>,
      \* no space around "=", two records
      <<NAME, EQ, LB, OLD, COMMA, SP, OLD2, RB>>,
      \* the empty list
      <<NAME, SP, EQ, SP, LB, RB>>,
      \* a list literal over several lines
      <<NAME, SP, EQ, SP, LB, NL, TAB, OLD, COMMA, NL, RB>>,
      \* two spaces before "="
      <<NAME, SP, SP, EQ, SP, LB, OLD, RB>>,
      \* a second bracket span on the line of the declaration
      <<NAME, SP, EQ, SP, LB, OLD, RB, ";", SP, "y", SP, EQ, SP, LB, "1", RB>>,
      \* a record that holds a nested list
      <<NAME, SP, EQ, SP, LB, "{'from_route': '/n', 'to_route': 'n', 'methods': ",
        LB, "'GET'", RB, "}", RB>> }

Suffixes ==
    { <<>>,
      <<NL>>,
      <<NL, "z", SP, EQ, SP, LB, "1", RB, NL>> }

HooksTexts == {p \o d \o s : p \in Prefixes, d \in Declarations, s \in Suffixes}

----------------------------------------------------------------------------
(* Sequential injections into one hooks.py *)

NoGenerator ==
    /\ pc = "idle"
    /\ spa_name = ""
    /\ add_tailwindcss = FALSE
    /\ fs = <<>>
    /\ written = {}
    /\ out = <<>>
    /\ cmds = <<>>
    /\ steps = <<>>

NoRuns ==
    /\ rpc = <<>>
    /\ rlocal = <<>>
    /\ overlapped = FALSE

InitInject ==
    /\ hooks \in HooksTexts
    /\ hooks0 = hooks
    /\ prev = hooks
    /\ hist = <<>>
    /\ NoGenerator
    /\ NoRuns

\* one run of add_routing_rule_to_hooks for the spa called name: read,
\* transform, write
inject(name) ==
    /\ Len(hist) < MaxInjections
    /\ hooks' = updates_hooks(hooks, name)
    /\ prev' = hooks
    /\ hist' = Append(hist, name)
    /\ UNCHANGED <<hooks0, genvars, runvars>>

NextInject == \E name \in SpaNames : inject(name)

SpecInject == InitInject /\ [][NextInject]_vars

----------------------------------------------------------------------------
(* generate_spa: one run of the generator *)

\* the exit status of an external command
ExitCodes == {0, 1}

\* What "yarn create vite <spa_name> --template vue" may leave under
\* apps/<app>/<spa_name>: nothing, the directory alone, or the project with
\* any of src/, src/main.js and package.json missing; package.json "bad" is
\* a manifest that json.load rejects or that has no "scripts".
ScaffoldTrees ==
    { [spa_dir |-> FALSE, src_dir |-> FALSE, main_js |-> FALSE, package_json |-> "missing"],
      [spa_dir |-> TRUE, src_dir |-> FALSE, main_js |-> FALSE, package_json |-> "missing"],
      [spa_dir |-> TRUE, src_dir |-> FALSE, main_js |-> FALSE, package_json |-> "ok"],
      [spa_dir |-> TRUE, src_dir |-> TRUE, main_js |-> FALSE, package_json |-> "ok"],
      [spa_dir |-> TRUE, src_dir |-> TRUE, main_js |-> TRUE, package_json |-> "ok"],
      [spa_dir |-> TRUE, src_dir |-> TRUE, main_js |-> TRUE, package_json |-> "missing"],
      [spa_dir |-> TRUE, src_dir |-> TRUE, main_js |-> TRUE, package_json |-> "bad"] }

GenHooksTexts ==
    { <<"x", SP, EQ, SP, "1", NL>>,
      <<NAME, SP, EQ, SP, LB, OLD, RB, NL>> }

\* the methods generate_spa calls, in its order
Order ==
    <<"initialize_vue_vite_project", "link_controller_files", "setup_proxy_options",
      "setup_vue_router", "create_vue_files", "update_package_json",
      "create_www_directory">>
    \o (IF add_tailwindcss THEN <<"setup_tailwindcss">> ELSE <<>>)
    \o <<"add_routing_rule_to_hooks">>

\* the state after SPAGenerator(spa_name, app, add_tailwindcss), in an
\* application that has no directory for the spa yet
InitGen ==
    /\ hooks \in GenHooksTexts
    /\ hooks0 = hooks
    /\ prev = hooks
    /\ hist = <<>>
    /\ pc = "generate_spa"
    /\ spa_name \in SpaNames
    /\ add_tailwindcss \in BOOLEAN
    /\ fs \in [spa_dir : {FALSE}, src_dir : {FALSE}, main_js : {FALSE},
               router_dir : {FALSE}, views_dir : {FALSE}, www_dir : BOOLEAN,
               package_json : {"missing"}, app_package_json : {"missing", "ok"}]
    /\ written = {}
    /\ out = <<>>
    /\ cmds = <<>>
    /\ steps = <<>>
    /\ NoRuns

\* a method returns: generate_spa goes on to the next call
Return(method) ==
    /\ steps' = Append(steps, method)
    /\ pc' = IF Len(steps) + 1 < Len(Order) THEN Order[Len(steps) + 2] ELSE "echo"

\* a method raises: nothing catches it, the run ends
Raise ==
    /\ pc' = "raised"
    /\ UNCHANGED steps

\* subprocess.run(args, cwd=...) with no check=: the exit status is returned
\* and dropped
Ran(command, exit) == Append(cmds, [command |-> command, exit |-> exit])

\* create_file(path, content) of .utils: touch, then write
create_file(files, path) == files \cup {path}

generate_spa_begin ==
    /\ pc = "generate_spa"
    /\ out' = Append(out, "Generating spa...")
    /\ pc' = Order[1]
    /\ UNCHANGED <<textvars, spa_name, add_tailwindcss, fs, written, cmds, steps, runvars>>

initialize_vue_vite_project ==
    /\ pc = "initialize_vue_vite_project"
    /\ \E e1 \in ExitCodes, t \in ScaffoldTrees, e2 \in ExitCodes :
        /\ fs' = [fs EXCEPT !.spa_dir = t.spa_dir, !.src_dir = t.src_dir,
                            !.main_js = t.main_js, !.package_json = t.package_json]
        /\ out' = out \o <<"Scafolding vue project...", "Installing dependencies...">>
        /\ IF t.spa_dir
           THEN \* yarn add runs in the new directory
                /\ cmds' = Ran("yarn create vite", e1) \o
                               <<[command |-> "yarn add", exit |-> e2]>>
                /\ Return("initialize_vue_vite_project")
           ELSE \* cwd=self.spa_path does not exist: subprocess.run raises
                /\ cmds' = Ran("yarn create vite", e1)
                /\ Raise
    /\ UNCHANGED <<textvars, spa_name, add_tailwindcss, written, runvars>>

\* a link_controller_files that raises when src/main.js is missing
link_controller_files_Raises ==
    /\ pc = "link_controller_files"
    /\ IF fs.main_js
       THEN /\ written' = written \cup
                  {IF add_tailwindcss THEN "src/main.js with index.css" ELSE "src/main.js"}
            /\ out' = Append(out, "Linking controller files...")
            /\ Return("link_controller_files")
       ELSE /\ written' = written
            /\ out' = out \o <<"Linking controller files...", "src/main.js not found!">>
            /\ Raise
    /\ UNCHANGED <<textvars, spa_name, add_tailwindcss, fs, cmds, runvars>>

link_controller_files ==
    /\ pc = "link_controller_files"
    /\ IF fs.main_js
       THEN /\ written' = written \cup
                  {IF add_tailwindcss THEN "src/main.js with index.css" ELSE "src/main.js"}
            /\ out' = Append(out, "Linking controller files...")
       ELSE /\ written' = written
            /\ out' = out \o <<"Linking controller files...", "src/main.js not found!">>
    /\ Return("link_controller_files")
    /\ UNCHANGED <<textvars, spa_name, add_tailwindcss, fs, cmds, runvars>>

setup_proxy_options ==
    /\ pc = "setup_proxy_options"
    /\ IF fs.spa_dir
       THEN /\ written' = create_file(written, "proxyOptions.js") \cup {"vite.config.js"}
            /\ Return("setup_proxy_options")
       ELSE /\ written' = written
            /\ Raise
    /\ UNCHANGED <<textvars, spa_name, add_tailwindcss, fs, out, cmds, runvars>>

setup_vue_router ==
    /\ pc = "setup_vue_router"
    /\ IF fs.src_dir /\ ~fs.router_dir
       THEN /\ fs' = [fs EXCEPT !.router_dir = TRUE]
            /\ written' = create_file(create_file(written, "src/router/index.js"),
                                        "src/router/auth.js")
            /\ Return("setup_vue_router")
       ELSE \* Path.mkdir(): the parent is missing, or the directory exists
            /\ UNCHANGED <<fs, written>>
            /\ Raise
    /\ UNCHANGED <<textvars, spa_name, add_tailwindcss, out, cmds, runvars>>

create_vue_files ==
    /\ pc = "create_vue_files"
    /\ IF fs.src_dir
       THEN /\ fs' = [fs EXCEPT !.views_dir = TRUE]
            /\ written' = create_file(create_file(create_file(written, "src/App.vue"),
                                        "src/views/Home.vue"), "src/views/Login.vue")
            /\ Return("create_vue_files")
       ELSE /\ UNCHANGED <<fs, written>>
            /\ Raise
    /\ UNCHANGED <<textvars, spa_name, add_tailwindcss, out, cmds, runvars>>

SpaScripts == {"package.json scripts.build", "package.json scripts.copy-html-entry"}
AppScripts == {"../package.json scripts.dev", "../package.json scripts.build"}

\* an update_package_json that prints the message and goes on to the
\* application's manifest instead of returning
update_package_json_NoReturn ==
    /\ pc = "update_package_json"
    /\ \/ /\ fs.package_json = "missing"
          /\ out' = Append(out, "package.json not found. Please manulally update the build command.")
          /\ \E e \in ExitCodes :
              /\ cmds' = IF fs.app_package_json = "missing" THEN Ran("npm init", e) ELSE cmds
              /\ fs' = [fs EXCEPT !.app_package_json = "ok"]
              /\ written' = IF fs.app_package_json = "missing"
                            THEN written \cup AppScripts ELSE written
          /\ Return("update_package_json")
       \/ /\ fs.package_json = "bad"
          /\ Raise
          /\ UNCHANGED <<fs, written, cmds, out>>
       \/ /\ fs.package_json = "ok"
          /\ written' = written \cup SpaScripts
          /\ Return("update_package_json")
          /\ UNCHANGED <<fs, cmds, out>>
    /\ UNCHANGED <<textvars, spa_name, add_tailwindcss, runvars>>

update_package_json ==
    /\ pc = "update_package_json"
    /\ \/ /\ fs.package_json = "missing"
          /\ out' = Append(out, "package.json not found. Please manulally update the build command.")
          /\ Return("update_package_json")
          /\ UNCHANGED <<fs, written, cmds>>
       \/ /\ fs.package_json = "bad"
          \* json.load or data["scripts"] raises
          /\ Raise
          /\ UNCHANGED <<fs, written, cmds, out>>
       \/ /\ fs.package_json = "ok"
          /\ fs.app_package_json = "ok"
          /\ written' = written \cup SpaScripts
          /\ Return("update_package_json")
          /\ UNCHANGED <<fs, cmds, out>>
       \/ /\ fs.package_json = "ok"
          /\ fs.app_package_json = "missing"
          /\ \E e \in ExitCodes, created \in BOOLEAN :
              /\ cmds' = Ran("npm init", e)
              /\ IF created
                 THEN /\ fs' = [fs EXCEPT !.app_package_json = "ok"]
                      /\ written' = written \cup SpaScripts \cup AppScripts
                      /\ Return("update_package_json")
                 ELSE \* app_package_json_path.open("r") raises
                      /\ fs' = fs
                      /\ written' = written \cup SpaScripts
                      /\ Raise
          /\ UNCHANGED out
    /\ UNCHANGED <<textvars, spa_name, add_tailwindcss, runvars>>

create_www_directory ==
    /\ pc = "create_www_directory"
    /\ fs' = [fs EXCEPT !.www_dir = TRUE]
    /\ Return("create_www_directory")
    /\ UNCHANGED <<textvars, spa_name, add_tailwindcss, written, out, cmds, runvars>>

setup_tailwindcss ==
    /\ pc = "setup_tailwindcss"
    /\ \E e1 \in ExitCodes, e2 \in ExitCodes :
        IF ~fs.spa_dir
        THEN /\ UNCHANGED <<cmds, written>>
             /\ Raise
        ELSE /\ cmds' = cmds \o <<[command |-> "npm install", exit |-> e1],
                                  [command |-> "npx tailwindcss init", exit |-> e2]>>
             /\ IF fs.src_dir
                THEN /\ written' = create_file(written, "src/index.css")
                     /\ Return("setup_tailwindcss")
                ELSE /\ written' = written
                     /\ Raise
    /\ UNCHANGED <<textvars, spa_name, add_tailwindcss, fs, out, runvars>>

add_routing_rule_to_hooks ==
    /\ pc = "add_routing_rule_to_hooks"
    /\ hooks' = updates_hooks(hooks, spa_name)
    /\ prev' = hooks
    /\ hist' = Append(hist, spa_name)
    /\ Return("add_routing_rule_to_hooks")
    /\ UNCHANGED <<hooks0, spa_name, add_tailwindcss, fs, written, out, cmds, runvars>>

generate_spa_end ==
    /\ pc = "echo"
    /\ out' = out \o <<"Run: cd <spa_path> && npm run dev",
                       "to start the development server and visit: http://<site>:8080">>
    /\ pc' = "done"
    /\ UNCHANGED <<textvars, spa_name, add_tailwindcss, fs, written, cmds, steps, runvars>>

NextGen ==
    \/ generate_spa_begin
    \/ initialize_vue_vite_project
    \/ link_controller_files
    \/ setup_proxy_options
    \/ setup_vue_router
    \/ create_vue_files
    \/ update_package_json
    \/ create_www_directory
    \/ setup_tailwindcss
    \/ add_routing_rule_to_hooks
    \/ generate_spa_end

SpecGen == InitGen /\ [][NextGen]_vars

----------------------------------------------------------------------------
(* Two runs of the generator, for different spas of one application, at   *)
(* add_routing_rule_to_hooks.  Each run reads hooks.py into its local     *)
(* variable and later writes the transformed text back; the write (open   *)
(* for writing, write, close) is taken as one step: splitting it adds     *)
(* only runs in which one run reads or writes inside the other's write.   *)

Runs == {1, 2}
RunNames == <<"b", "billing">>

InitRuns ==
    /\ hooks \in HooksTexts
    /\ hooks0 = hooks
    /\ prev = hooks
    /\ hist = <<>>
    /\ NoGenerator
    /\ rpc = <<"read", "read">>
    /\ rlocal = << <<>>, <<>> >>
    /\ overlapped = FALSE

\* with hooks_py.open("r") as f: hooks = f.read()
hooks_read(r) ==
    /\ rpc[r] = "read"
    /\ rlocal' = [rlocal EXCEPT ![r] = hooks]
    /\ rpc' = [rpc EXCEPT ![r] = "write"]
    /\ overlapped' = (overlapped \/ rpc[3 - r] = "write")
    /\ UNCHANGED <<textvars, genvars>>

\* with hooks_py.open("w") as f: f.write(updates_hooks)
hooks_write(r) ==
    /\ rpc[r] = "write"
    /\ hooks' = updates_hooks(rlocal[r], RunNames[r])
    /\ prev' = rlocal[r]
    /\ hist' = Append(hist, RunNames[r])
    /\ rpc' = [rpc EXCEPT ![r] = "done"]
    /\ UNCHANGED <<hooks0, rlocal, overlapped, genvars>>

NextRuns == \E r \in Runs : hooks_read(r) \/ hooks_write(r)

SpecRuns == InitRuns /\ [][NextRuns]_vars

----------------------------------------------------------------------------
(* Reading hooks.py as the host language does *)

SkipBlank(txt, i) ==
    LET S == {k \in i..Len(txt) : txt[k] \notin {SP, TAB}}
    IN IF S = {} THEN Len(txt) + 1 ELSE SetMin(S)

\* the position of "=" and of "[" of a statement that starts with the name at i
EqOf(txt, i) == SkipBlank(txt, i + 1)
OpenOf(txt, i) == SkipBlank(txt, EqOf(txt, i) + 1)

\* a statement  website_route_rules = [  starts at token i
DeclAt(txt, i) ==
    /\ TokAt(txt, i) = NAME
    /\ i = 1 \/ TokAt(txt, i - 1) = NL
    /\ TokAt(txt, EqOf(txt, i)) = EQ
    /\ TokAt(txt, OpenOf(txt, i)) = LB

DeclSet(txt) == {i \in 1..Len(txt) : DeclAt(txt, i)}

\* the bracket that closes the one opened just before k, 0 when there is none
RECURSIVE CloseFrom(_, _, _)
CloseFrom(txt, k, depth) ==
    IF k > Len(txt) THEN 0
    ELSE IF txt[k] = LB THEN CloseFrom(txt, k + 1, depth + 1)
    ELSE IF txt[k] = RB
         THEN IF depth = 0 THEN k ELSE CloseFrom(txt, k + 1, depth - 1)
    ELSE CloseFrom(txt, k + 1, depth)

CloseOf(txt, i) == CloseFrom(txt, OpenOf(txt, i) + 1, 0)

\* the elements of the list between a and b, each as text; whitespace between
\* elements is dropped, a comma after the last element is allowed, and an
\* element missing between two commas shows as ""
RECURSIVE Split(_, _, _, _, _, _)
Split(txt, k, b, depth, cur, acc) ==
    IF k > b THEN (IF cur = "" THEN acc ELSE Append(acc, cur))
    ELSE IF depth = 0 /\ txt[k] = COMMA THEN Split(txt, k + 1, b, 0, "", Append(acc, cur))
    ELSE IF depth = 0 /\ IsSpace(txt[k]) THEN Split(txt, k + 1, b, 0, cur, acc)
    ELSE Split(txt, k + 1, b,
               IF txt[k] = LB THEN depth + 1
               ELSE IF txt[k] = RB THEN depth - 1 ELSE depth,
               cur \o txt[k], acc)

Records(txt, i) == Split(txt, OpenOf(txt, i) + 1, CloseOf(txt, i) - 1, 0, "", <<>>)

\* the declaration at i is a list literal
ListLiteral(txt, i) ==
    /\ CloseOf(txt, i) # 0
    /\ \A k \in 1..Len(Records(txt, i)) : Records(txt, i)[k] # ""

TheDecl(txt) == CHOOSE i \in DeclSet(txt) : TRUE

Injected == hist # <<>>
Last == hist[Len(hist)]

NoName(txt) == \A k \in 1..Len(txt) : txt[k] # NAME

\* the rules injected so far, newest first
Newest == [k \in 1..Len(hist) |-> rule(hist[Len(hist) + 1 - k])]

IsPrefix(a, b) == Len(a) <= Len(b) /\ SubSeq(b, 1, Len(a)) = a

\* the text after position k
After(txt, k) == SubSeq(txt, k + 1, Len(txt))

----------------------------------------------------------------------------
(* Claims on the text transformation, under SpecInject *)

\* the declaration at i is written  website_route_rules = [  with one space
\* on each side of "="
PlainShape(txt, i) == SubSeq(txt, i, i + 4) = <<NAME, SP, EQ, SP, LB>>

\* C1: when the text holds a declaration  website_route_rules = [ ... ]  with
\* at least one record, an injection leaves one declaration whose list is the
\* new rule's record followed by the records it held, in order and unchanged.
C1_PrependsToDeclaredList ==
    (Injected /\ Cardinality(DeclSet(prev)) = 1
        /\ PlainShape(prev, TheDecl(prev))
        /\ ListLiteral(prev, TheDecl(prev)) /\ Records(prev, TheDecl(prev)) # <<>>)
    => /\ Cardinality(DeclSet(hooks)) = 1
       /\ Records(hooks, TheDecl(hooks)) = <<rule(Last)>> \o Records(prev, TheDecl(prev))

\* C2: when the text does not hold the name website_route_rules, an injection
\* leaves exactly one declaration; it starts the line appended after the old
\* text, ends the file, and its list holds one record, the new rule.
C2_AppendsFreshDeclaration ==
    (Injected /\ NoName(prev))
    => /\ DeclSet(hooks) = {Len(prev) + 2}
       /\ hooks[Len(prev) + 1] = NL
       /\ CloseOf(hooks, Len(prev) + 2) = Len(hooks)
       /\ ListLiteral(hooks, Len(prev) + 2)
       /\ Records(hooks, Len(prev) + 2) = <<rule(Last)>>

C2_Witness == Injected /\ NoName(prev) /\ prev # <<>> /\ Last = "billing"

\* C3: when the input text declares website_route_rules at most once, the
\* text after any number of injections holds exactly one declaration, a list
\* literal.
C3_SingleDeclaration ==
    (Injected /\ Cardinality(DeclSet(hooks0)) <= 1)
    => /\ Cardinality(DeclSet(hooks)) = 1
       /\ ListLiteral(hooks, TheDecl(hooks))

\* C4: after n injections into a text that did not hold the name, the list
\* holds exactly the n injected records, newest first, equal rules included.
C4_NewestFirst ==
    (Injected /\ NoName(hooks0))
    => /\ Cardinality(DeclSet(hooks)) = 1
       /\ Records(hooks, TheDecl(hooks)) = Newest

C4_Witness ==
    /\ NoName(hooks0)
    /\ Len(hist) = 3
    /\ hist[1] = hist[2]
    /\ hist[3] # hist[2]

\* C5 as stated: injecting 'billing' into "x = 1\n" gives the input line, one
\* line break, then the declaration.
C5_OneLineBreak ==
    (Len(hist) = 1 /\ Last = "billing" /\ Flat(prev) = "x = 1\n")
    => Flat(hooks) =
        "x = 1\nwebsite_route_rules = [{'from_route': '/billing/<path:app_path>', 'to_route': 'billing'},]"

\* C5 amended: injecting 'billing' into "x = 1\n" gives the input text, a line
\* break of its own (so an empty line), then the declaration.
C5_EmptyLineThenDeclaration ==
    (Len(hist) = 1 /\ Last = "billing" /\ Flat(prev) = "x = 1\n")
    => Flat(hooks) =
        "x = 1\n\nwebsite_route_rules = [{'from_route': '/billing/<path:app_path>', 'to_route': 'billing'},]"

C5_Witness == Len(hist) = 1 /\ Last = "billing" /\ Flat(prev) = "x = 1\n"

\* C10: an injection changes nothing outside the list: with a declaration
\* matched, the text before it and the text after its closing bracket are the
\* same before and after; with none matched, the old text is a prefix of the
\* new text.
C10_FrameOutsideList ==
    Injected =>
        IF pattern_search(prev)
        THEN LET i == NextMatch(prev, 1)
             IN /\ SubSeq(hooks, 1, i - 1) = SubSeq(prev, 1, i - 1)
                /\ TokAt(hooks, i) = NAME
                /\ After(hooks, CloseFrom(hooks, i + 5, 0))
                       = After(prev, CloseFrom(prev, MatchAt(prev, i).gs, 0))
        ELSE IsPrefix(prev, hooks)

----------------------------------------------------------------------------
(* Claims on generate_spa, under SpecGen *)

Printed(line) == \E k \in 1..Len(out) : out[k] = line

NonZero == {k \in 1..Len(cmds) : cmds[k].exit # 0}

HasRun(command) == \E k \in 1..Len(cmds) : cmds[k].command = command

MainJsNotFound == Printed("src/main.js not found!")

ManifestNotFound ==
    Printed("package.json not found. Please manulally update the build command.")

FinalInstructions ==
    /\ Printed("Run: cd <spa_path> && npm run dev")
    /\ Printed("to start the development server and visit: http://<site>:8080")

\* C6: once an external command has exited with a non-zero status the run is
\* over: hooks.py is never patched and the end of generate_spa is never
\* reached.
C6_NonZeroExitEndsRun ==
    NonZero # {} => (hooks = hooks0 /\ pc \notin {"echo", "done"})

\* C7 as stated: when src/main.js is missing, link_controller_files prints
\* its message and returns, and the run goes through every remaining step to
\* the final instructions: it never ends in a raised exception.
C7_MissingMainJsRunCompletes ==
    MainJsNotFound =>
        /\ "src/main.js" \notin written
        /\ "src/main.js with index.css" \notin written
        /\ pc # "raised"

\* C7 amended: when src/main.js is missing, link_controller_files prints its
\* message, writes nothing and returns; generate_spa goes on with the
\* remaining steps in their order, each run only after the one before it has
\* returned, and the final instructions are printed exactly when all of them
\* have returned (a later step may still raise and end the run).
C7_MissingMainJsDoesNotStopRun ==
    MainJsNotFound =>
        /\ "src/main.js" \notin written
        /\ "src/main.js with index.css" \notin written
        /\ Len(steps) >= 2 /\ steps[2] = "link_controller_files"
        /\ IsPrefix(steps, Order)
        /\ pc \in {"raised", "echo", "done"} \/ pc = Order[Len(steps) + 1]
        /\ pc \in {"echo", "done"} <=> steps = Order
        /\ pc = "done" <=> FinalInstructions

C7_Witness ==
    /\ MainJsNotFound
    /\ pc = "done"
    /\ hooks # hooks0

\* C8: when the spa's package.json is missing, update_package_json prints its
\* message and returns: no script is written to either manifest, npm init is
\* not run and the application's manifest is not created, and every later
\* step of generate_spa runs, up to the final instructions.
C8_MissingManifestLeavesManifests ==
    ManifestNotFound =>
        /\ written \cap (SpaScripts \cup AppScripts) = {}
        /\ ~HasRun("npm init")
        /\ fs.package_json = "missing"
        /\ Len(steps) >= 6 /\ steps[6] = "update_package_json"
        /\ IsPrefix(steps, Order)
        /\ pc # "raised"
        /\ pc \in {"echo", "done"} \/ pc = Order[Len(steps) + 1]
        /\ pc = "done" => (FinalInstructions /\ hist = <<spa_name>>)

C8_Witness ==
    /\ ManifestNotFound
    /\ fs.app_package_json = "missing"
    /\ add_tailwindcss
    /\ pc = "done"

----------------------------------------------------------------------------
(* Claim on two concurrent runs, under SpecRuns *)

Holds(txt, record) == \E k \in 1..Len(txt) : txt[k] = record

BothDone == rpc = <<"done", "done">>

\* C9: when the two runs have ended and neither read hooks.py between the
\* other's read and write, hooks.py holds the rules of both; a rule is lost
\* only when the runs interleaved (the witness: both runs have ended and the
\* file lacks the rule of one).
C9_SequentialRunsKeepBothRules ==
    BothDone =>
        /\ ~overlapped => \A r \in Runs : Holds(hooks, rule(RunNames[r]))
        /\ (\E r \in Runs : ~Holds(hooks, rule(RunNames[r]))) => overlapped

C9_Witness ==
    /\ BothDone
    /\ overlapped
    /\ \E r \in Runs : ~Holds(hooks, rule(RunNames[r]))

====
